---- MODULE Spec2Model ----
(***************************************************************************)
(* Weighted interpolation engine of devito/operations/interpolators.py.    *)
(*                                                                         *)
(* A sparse point set (sfunction) is wrapped by an interpolator (linear or *)
(* precomputed).  interpolate / inject build deferred operations whose     *)
(* callback, when forced, produces an ordered list of equations.  The      *)
(* equations are modelled as records that keep the structure the claims    *)
(* talk about: the equation class (Eq / Inc), the symbol or access that is *)
(* written, the weight factors, the guarded indices and their conditions.  *)
(*                                                                         *)
(* Python semantics that decide the behaviour are modelled as they are:    *)
(* range(), itertools.product order, list indexing with negative indices   *)
(* and IndexError, integer floor division, cached_property, the reflected  *)
(* addition protocol and sympy's structural equality.                      *)
(***************************************************************************)
EXTENDS Integers, Sequences, FiniteSets, TLC

\* Bounds of the model.
MaxDim == 2
MaxR == 3
MaxOps == 2
GridMax == 3
MaxBase == 2
MaxNeighbors == 9

VARIABLES
    dim,      \* grid.dim: number of grid axes
    spacing,  \* the grid spacing h, in position units, the same on every axis
    pt,       \* the position of one sparse point, pt[a] on axis a
    sf,       \* the sparse point set wrapped by the interpolator
    optimize, \* python -O: assert statements are not run
    wcache,   \* the interpolator's cached_property _weights
    ops,      \* the deferred operations created so far, in creation order
    results,  \* results[i]: what the last two forcings of ops[i] returned or raised
    num,      \* the values the last executed equation list gave at the point
    alg       \* the last `a + b`, `(a + b) + c` or `a == b` and its value

vars == <<dim, spacing, pt, sf, optimize, wcache, ops, results, num, alg>>

(***************************************************************************)
(* Python helpers                                                          *)
(***************************************************************************)

\* range(a, b) as a sequence.
Range(a, b) == [i \in 1..(IF b > a THEN b - a ELSE 0) |-> a + i - 1]

\* list[i] is defined for -len <= i < len; anything else is an IndexError.
PyInRange(s, i) == (i >= 0 /\ i < Len(s)) \/ (i < 0 /\ -i <= Len(s))

\* list[i], negative i counting from the end.
PyAt(s, i) == IF i >= 0 THEN s[i + 1] ELSE s[Len(s) + i + 1]

\* itertools.product(s, repeat=n): the last component varies fastest.
Product(s, n) ==
    [i \in 1..(Len(s) ^ n) |->
        [a \in 1..n |-> s[(((i - 1) \div (Len(s) ^ (n - a))) % Len(s)) + 1]]]

(***************************************************************************)
(* Symbols.  A name is a prefix followed by tokens joined with "_", so two *)
(* names are equal exactly when the formatted strings are equal.           *)
(***************************************************************************)

DimNames == <<"x", "y", "z", "w">>
DimName(a) == <<DimNames[a]>>

Sym(pre, toks) == [pre |-> pre, toks |-> toks]
NoSymbol == Sym("", <<>>)

\* sfunction._position_map values: 'pos<d>'.
PosSymbol(a) == Sym("pos", DimName(a))
\* sfunction._point_symbols: 'p<d>'.
PointSymbol(a) == Sym("p", DimName(a))
\* Symbol(name='ii_%s_%s_%d' % (sfunction.name, d.name, ri)).
IndexSymbol(s, a, ri) == Sym("ii_", s.name \o DimName(a) \o <<ToString(ri)>>)
\* Symbol(name='sum').
SumSymbol == Sym("sum", <<>>)

(***************************************************************************)
(* Expressions and their operands (inputs of interpolate / inject).        *)
(* A carrier is one function occurrence of the evaluated expression:       *)
(* fn its name, stag its origin (in half spacings, the same on every       *)
(* axis), shift the index shift on the first axis left by an evaluated     *)
(* derivative, grid whether it is defined on the grid dimensions.          *)
(***************************************************************************)

Carrier(fn, stag, shift, grid) ==
    [fn |-> fn, stag |-> stag, shift |-> shift, grid |-> grid]

FnU == Carrier("u", 0, 0, TRUE)
FnUShifted == Carrier("u", 0, 1, TRUE)
FnV == Carrier("v", 1, 0, TRUE)
FnSrc == Carrier("src", 0, 0, FALSE)

\* The expressions handed to interpolate/inject: "const" is a sympy constant
\* such as sympy.Float(2.0), "number" a plain Python number such as 2.0.
Exprs == {"u", "uv", "dxu", "src", "const", "number"}
Fields == {FnU, FnV}
Offsets == {0, 1}

\* `expr.evaluate` exists for devito expressions, not for "a generic SymPy
\* expression or a number".
HasEvaluate(e) == e \notin {"const", "number"}

\* `_expr.xreplace` exists for every sympy object, not for a Python number.
HasXReplace(e) == e # "number"

\* expr.evaluate: a derivative becomes its finite-difference stencil.
Evaluated(e) == IF e = "dxu" THEN "fd_u" ELSE e

\* retrieve_function_carriers(_expr).
Carriers(e) ==
    CASE e = "u" -> <<FnU>>
      [] e = "uv" -> <<FnU, FnV>>
      [] e = "dxu" -> <<FnU>>
      [] e = "fd_u" -> <<FnUShifted, FnU>>
      [] e = "src" -> <<FnSrc>>
      [] OTHER -> <<>>

(***************************************************************************)
(* Equations                                                               *)
(***************************************************************************)

MkEq(lhs, rhs, idims) ==
    [cls |-> "Eq", lhs |-> lhs, rhs |-> rhs, implicit_dims |-> idims]
MkInc(lhs, rhs, idims) ==
    [cls |-> "Inc", lhs |-> lhs, rhs |-> rhs, implicit_dims |-> idims]

SymTerm(sym) == [t |-> "sym", sym |-> sym]

\* implicit_dims(): as_tuple(implicit_dims) + sfunction.dimensions.
ImplicitDims(s, idims) == idims \o <<Sym("p_", s.name)>>

(***************************************************************************)
(* WeightedInterpolation and its two schemes                               *)
(***************************************************************************)

\* _interp_points: range(-r+1, r+1); PrecomputedInterpolator overrides it with
\* range(-r//2 + 1, r//2 + 1), where -r//2 is floor(-r / 2).
InterpPoints(s) ==
    IF s.scheme = "precomputed"
    THEN Range(((-s.r) \div 2) + 1, (s.r \div 2) + 1)
    ELSE Range(-s.r + 1, s.r + 1)

\* _nd_points: product(_interp_points, repeat=grid.dim).
NdPoints(s, d) == Product(InterpPoints(s), d)

\* One per-axis weight expression.  kind "1-p/h" and "p/h" are the linear
\* weights on the point symbol p; kind "table" is the lookup
\* interpolation_coeffs[point, di, k] with di = axis - 1.
Factor(kind, a, p, k) == [kind |-> kind, axis |-> a, p |-> p, k |-> k]

\* Mutant of the linear weights: the two weights of an axis are swapped.
LinearWeightsSwapped(d) ==
    [a \in 1..d |-> << Factor("p/h", a, PointSymbol(a), 0),
                       Factor("1-p/h", a, PointSymbol(a), 0) >>]

\* LinearInterpolator._weights: {d: [1 - p/d.spacing, p/d.spacing]}.
LinearWeights(d) ==
    [a \in 1..d |-> << Factor("1-p/h", a, PointSymbol(a), 0),
                       Factor("p/h", a, PointSymbol(a), 0) >>]

\* PrecomputedInterpolator._weights: one table lookup per interpolation point,
\* addressed by the point itself.
PrecomputedWeights(s, d) ==
    [a \in 1..d |->
        [j \in 1..Len(InterpPoints(s)) |->
            Factor("table", a, NoSymbol, InterpPoints(s)[j])]]

\* The _weights property of the interpolator's class.
ComputeWeights(s, d) ==
    IF s.scheme = "linear" THEN LinearWeights(d) ELSE PrecomputedWeights(s, d)

\* cached_property: computed on the first access, then read from the cache.
NoCache == [set |-> FALSE, val |-> <<>>]
\* Mutant of the cached property: the cached per-axis lists come back in
\* another order than they were computed in.
CachedWeightsStale(wc, s, d) ==
    IF wc.set
    THEN [a \in 1..Len(wc.val) |->
            [j \in 1..Len(wc.val[a]) |-> wc.val[a][Len(wc.val[a]) + 1 - j]]]
    ELSE ComputeWeights(s, d)
CachedWeights(wc, s, d) == IF wc.set THEN wc.val ELSE ComputeWeights(s, d)

\* _interpolation_coeffs: coeffs[p] = prod(_weights[d][i] for (d, i) in
\* zip(_gdim, p)): the component i of the point is used as a list index.
\* CoeffsOk is FALSE when one of the list accesses raises IndexError.
\* Every offset occurs on every axis of some tuple of the product, so the
\* accesses succeed for all tuples exactly when they do for every offset.
CoeffsOk(W, pts, d) ==
    \A a \in 1..d : \A j \in 1..Len(pts) : PyInRange(W[a], pts[j])

\* Mutant of _interpolation_coeffs: the weight is taken at the position of the
\* offset among the interpolation points, not with the offset as list index.
InterpolationCoeffsByPosition(W, nd, d) ==
    [k \in 1..Len(nd) |-> [a \in 1..d |-> W[a][nd[k][a] - nd[1][a] + 1]]]

InterpolationCoeffs(W, nd, d) ==
    [k \in 1..Len(nd) |-> [a \in 1..d |-> PyAt(W[a], nd[k][a])]]

\* sfunction._position_map keys: the coordinate relative to the grid origin, or
\* sfunction._coordinate_indices: the base cell index of the point.
CoordTerm(a) == [t |-> "coord", axis |-> a]
BaseTerm(s, a) ==
    [t |-> "base", axis |-> a,
     from |-> IF s.scheme = "precomputed" /\ s.gridpoints
              THEN "gridpoints" ELSE "coordinates"]

\* _positions: Eq(pos_d, coordinate); PrecomputedInterpolator emits none when
\* the point set carries gridpoints.
Positions(s, d, idims) ==
    IF s.scheme = "precomputed" /\ s.gridpoints
    THEN <<>>
    ELSE [a \in 1..d |-> MkEq(SymTerm(PosSymbol(a)), CoordTerm(a), idims)]

\* _coeff_temps: none in the base class; LinearInterpolator defines
\* p_d = pos_d - spacing * INT(floor(pos_d / spacing)).
CoeffTemps(s, d, idims) ==
    IF s.scheme = "linear"
    THEN [a \in 1..d |->
            MkEq(SymTerm(PointSymbol(a)),
                 [t |-> "frac", axis |-> a, pos |-> PosSymbol(a)], idims)]
    ELSE <<>>

\* The condition And(p >= d.symbolic_min - r, p <= d.symbolic_max + r).
Bound(p, rel, ext, a, delta) ==
    [sym |-> p, rel |-> rel, ext |-> ext, axis |-> a, delta |-> delta]
\* Mutant of the condition: the upper bound is strict.
ConditionStrictUpper(s, a, p) ==
    [lb |-> Bound(p, ">=", "min", a, -s.r), ub |-> Bound(p, "<", "max", a, s.r)]
Condition(s, a, p) ==
    [lb |-> Bound(p, ">=", "min", a, -s.r), ub |-> Bound(p, "<=", "max", a, s.r)]

\* ConditionalDimension(p.name, sfunction._sparse_dim, condition, indirect=True).
CondDim(s, a, ri) ==
    [name |-> IndexSymbol(s, a, ri), parent |-> Sym("p_", s.name),
     condition |-> Condition(s, a, IndexSymbol(s, a, ri)), indirect |-> TRUE]

\* Mutant of the index temporaries: the offset is not added to the base.
IndexTempsNoOffset(s, d, idims) ==
    LET pts == InterpPoints(s)
        n == Len(pts)
    IN  [i \in 1..(d * n) |->
            LET a == ((i - 1) \div n) + 1
                ri == (i - 1) % n
            IN  MkEq(SymTerm(IndexSymbol(s, a, ri)),
                     [t |-> "index", base |-> BaseTerm(s, a), off |-> 0],
                     idims)]

\* The index temporaries Eq(p, pos + r), axis by axis, offset by offset.
IndexTemps(s, d, idims) ==
    LET pts == InterpPoints(s)
        n == Len(pts)
    IN  [i \in 1..(d * n) |->
            LET a == ((i - 1) \div n) + 1
                ri == (i - 1) % n
            IN  MkEq(SymTerm(IndexSymbol(s, a, ri)),
                     [t |-> "index", base |-> BaseTerm(s, a), off |-> pts[ri + 1]],
                     idims)]

\* mapper[d]: the guarded dimensions of one axis, in offset order.
Mapper(s, a) == [j \in 1..Len(InterpPoints(s)) |-> CondDim(s, a, j - 1)]

\* v.subs({k: c[pi] - v.origin.get(k, 0)}): every grid dimension of the operand
\* is replaced by the guarded dimension picked with the list index pi, minus
\* the operand's origin.
Access(v, cds) ==
    [fn |-> v.fn,
     idx |-> IF v.grid
             THEN [a \in 1..Len(cds) |->
                      [cd |-> cds[a], origin |-> v.stag,
                       shift |-> IF a = 1 THEN v.shift ELSE 0]]
             ELSE <<>>]

VarSet(variables) == {variables[i] : i \in 1..Len(variables)}

\* c[pi] for every offset pi of every axis: FALSE when one raises IndexError.
IndicesOk(s, pts, d) ==
    \A a \in 1..d : \A j \in 1..Len(pts) : PyInRange(Mapper(s, a), pts[j])

\* Mutant of _interpolation_indices: the coefficient temporaries are emitted
\* before the position temporaries they read.
InterpolationIndicesCoeffFirst(s, d, variables, offset, field_offset, idims) ==
    LET nd == NdPoints(s, d)
        temps == CoeffTemps(s, d, idims) \o Positions(s, d, idims)
                    \o IndexTemps(s, d, idims)
        mapper == [a \in 1..d |-> Mapper(s, a)]
        subs(k) == [v \in VarSet(variables) |->
                      Access(v, [a \in 1..d |-> PyAt(mapper[a], nd[k][a])])]
    IN  [idx_subs |-> [k \in 1..Len(nd) |-> subs(k)], temps |-> temps]

\* Mutant of _interpolation_indices: the offset argument is added to every
\* index definition.
InterpolationIndicesOffset(s, d, variables, offset, field_offset, idims) ==
    LET nd == NdPoints(s, d)
        it == IndexTemps(s, d, idims)
        temps == Positions(s, d, idims) \o CoeffTemps(s, d, idims)
                    \o [i \in 1..Len(it) |->
                           [it[i] EXCEPT !.rhs.off = @ + offset]]
        mapper == [a \in 1..d |-> Mapper(s, a)]
        subs(k) == [v \in VarSet(variables) |->
                      Access(v, [a \in 1..d |-> PyAt(mapper[a], nd[k][a])])]
    IN  [idx_subs |-> [k \in 1..Len(nd) |-> subs(k)], temps |-> temps]

\* _interpolation_indices: (idx_subs, temps).  The arguments offset and
\* field_offset are not used by the body.
InterpolationIndices(s, d, variables, offset, field_offset, idims) ==
    LET nd == NdPoints(s, d)
        temps == Positions(s, d, idims) \o CoeffTemps(s, d, idims)
                    \o IndexTemps(s, d, idims)
        mapper == [a \in 1..d |-> Mapper(s, a)]
        subs(k) == [v \in VarSet(variables) |->
                      Access(v, [a \in 1..d |-> PyAt(mapper[a], nd[k][a])])]
    IN  [idx_subs |-> [k \in 1..Len(nd) |-> subs(k)], temps |-> temps]

\* _expr.xreplace(v_sub): every carrier of the expression is replaced.
XReplace(e, vsub) ==
    [form |-> e, args |-> [i \in 1..Len(Carriers(e)) |-> vsub[Carriers(e)[i]]]]

\* subs_coords: [_expr.xreplace(v_sub) * b.xreplace(v_sub)] over
\* zip(_interpolation_coeffs, idx_subs).
Min(a, b) == IF a < b THEN a ELSE b
SubsCoords(e, coeffs, idx_subs) ==
    [k \in 1..Min(Len(coeffs), Len(idx_subs)) |->
        [t |-> "mul", expr |-> XReplace(e, idx_subs[k]), weight |-> coeffs[k]]]

\* Mutant of subs_coords_eq: the field is assigned, not incremented.
SubsCoordsEqAssign(field, e, coeffs, idx_subs, idims) ==
    [k \in 1..Min(Len(coeffs), Len(idx_subs)) |->
        MkEq([t |-> "access", acc |-> idx_subs[k][field]],
             [t |-> "mul", expr |-> XReplace(e, idx_subs[k]), weight |-> coeffs[k]],
             idims)]

\* subs_coords_eq: [Inc(field.xreplace(vsub), _expr.xreplace(vsub) * b)].
SubsCoordsEq(field, e, coeffs, idx_subs, idims) ==
    [k \in 1..Min(Len(coeffs), Len(idx_subs)) |->
        MkInc([t |-> "access", acc |-> idx_subs[k][field]],
              [t |-> "mul", expr |-> XReplace(e, idx_subs[k]), weight |-> coeffs[k]],
              idims)]

(***************************************************************************)
(* Deferred operations                                                     *)
(***************************************************************************)

\* What a call gave: the exception raised, or the value returned (iterable is
\* FALSE for a returned value that cannot be iterated over, such as None).
\* type is the Python type of the returned value, "" when nothing is returned.
Raised(err, wc) ==
    [err |-> err, eqs |-> <<>>, wc |-> wc, iterable |-> TRUE, type |-> ""]
ReturnedAs(eqs, type, wc) ==
    [err |-> "", eqs |-> eqs, wc |-> wc, iterable |-> TRUE, type |-> type]
Returned(eqs, wc) == ReturnedAs(eqs, "list", wc)
ReturnedNonIterable(wc) ==
    [err |-> "", eqs |-> <<>>, wc |-> wc, iterable |-> FALSE, type |-> "NoneType"]

\* Mutant of the accumulation: the accumulator is not set to zero first.
SummandsNoInit(rhs, args, idims) ==
    [k \in 1..Len(args) |-> MkInc(rhs, args[k], idims)]

\* summands: Eq(rhs, 0.), then one Inc(rhs, i) for every i in args.
Summands(rhs, args, idims) ==
    <<MkEq(rhs, [t |-> "zero"], idims)>>
    \o [k \in 1..Len(args) |-> MkInc(rhs, args[k], idims)]

\* The callback built by interpolate().  wc is the _weights cache before the
\* call; the result carries the cache after it.
InterpolateCallback(op, s, d, wc) ==
    LET e == IF HasEvaluate(op.expr) THEN Evaluated(op.expr) ELSE op.expr
        variables == Carriers(e)
    IN  IF Len(variables) = 0
        THEN Raised("IndexError", wc)     \* variables[0]
        ELSE
        LET ii == InterpolationIndices(s, d, variables, op.offset,
                                       variables[1].stag, op.implicit_dims)
            W == CachedWeights(wc, s, d)
            wc2 == [set |-> TRUE, val |-> W]
            nd == NdPoints(s, d)
        IN  IF ~IndicesOk(s, InterpPoints(s), d) THEN Raised("IndexError", wc)
            ELSE IF ~CoeffsOk(W, InterpPoints(s), d) THEN Raised("IndexError", wc2)
            ELSE
            LET args == SubsCoords(e, InterpolationCoeffs(W, nd, d), ii.idx_subs)
                rhs == SymTerm(SumSymbol)
                summands == Summands(rhs, args, op.implicit_dims)
                lhs == [t |-> "sparse", name |-> s.name, subs |-> op.self_subs]
                last == << IF op.increment
                           THEN MkInc(lhs, rhs, op.implicit_dims)
                           ELSE MkEq(lhs, rhs, op.implicit_dims) >>
            IN  Returned(ii.temps \o summands \o last, wc2)

\* The callback built by inject().
InjectCallback(op, s, d, wc) ==
    LET e == IF HasEvaluate(op.expr) THEN Evaluated(op.expr) ELSE op.expr
        variables == Carriers(e) \o <<op.field>>
        ii == InterpolationIndices(s, d, variables, op.offset,
                                   op.field.stag, op.implicit_dims)
        W == CachedWeights(wc, s, d)
        wc2 == [set |-> TRUE, val |-> W]
        nd == NdPoints(s, d)
    IN  IF ~IndicesOk(s, InterpPoints(s), d) THEN Raised("IndexError", wc)
        ELSE IF ~CoeffsOk(W, InterpPoints(s), d) THEN Raised("IndexError", wc2)
        ELSE IF ~HasXReplace(e) THEN Raised("AttributeError", wc2)  \* _expr.xreplace
        ELSE Returned(ii.temps
                        \o SubsCoordsEq(op.field, e, InterpolationCoeffs(W, nd, d),
                                        ii.idx_subs, op.implicit_dims),
                      wc2)

\* interpolator.subs_coords(_expr, *idx_subs) called directly.  zip() reads
\* _interpolation_coeffs first, so the weights are cached before anything else
\* can fail; _expr.xreplace is reached only when there is a substitution.
SubsCoordsCall(e, idx_subs, s, d, wc) ==
    LET W == CachedWeights(wc, s, d)
        wc2 == [set |-> TRUE, val |-> W]
    IN  IF ~CoeffsOk(W, InterpPoints(s), d) THEN Raised("IndexError", wc2)
        ELSE IF idx_subs # <<>> /\ ~HasXReplace(e) THEN Raised("AttributeError", wc2)
        ELSE Returned(SubsCoords(e, InterpolationCoeffs(W, NdPoints(s, d), d), idx_subs),
                      wc2)

\* interpolator.subs_coords_eq(field, _expr, *idx_subs, implicit_dims) called
\* directly.
SubsCoordsEqCall(field, e, idx_subs, idims, s, d, wc) ==
    LET W == CachedWeights(wc, s, d)
        wc2 == [set |-> TRUE, val |-> W]
    IN  IF ~CoeffsOk(W, InterpPoints(s), d) THEN Raised("IndexError", wc2)
        ELSE IF idx_subs # <<>> /\ ~HasXReplace(e) THEN Raised("AttributeError", wc2)
        ELSE Returned(SubsCoordsEq(field, e, InterpolationCoeffs(W, NdPoints(s, d), d),
                                   idx_subs, idims),
                      wc2)

\* A callback handed to UnevaluatedSparseOperation directly: it returns the
\* value it was made to return.
CustomCallback(op, wc) ==
    IF op.ret.iterable THEN ReturnedAs(op.ret.items, op.ret.type, wc)
    ELSE ReturnedNonIterable(wc)

\* op.callback().
Callback(op, s, d, wc) ==
    CASE op.callback = "interpolate" -> InterpolateCallback(op, s, d, wc)
      [] op.callback = "inject" -> InjectCallback(op, s, d, wc)
      [] op.callback = "custom" -> CustomCallback(op, wc)

\* isinstance(i, Eq): Inc is a subclass of Eq.
IsEqInstance(e) == e.cls \in {"Eq", "Inc"}

\* Mutant of _evaluate: the callback's value is returned unchecked.
EvaluateUnchecked(op, s, d, wc) == Callback(op, s, d, wc)

\* UnevaluatedSparseOperation._evaluate: the callback's value, asserted to hold
\* equations only.  Iterating over a value that is not iterable raises
\* TypeError inside the assert statement.
Evaluate(op, s, d, wc) ==
    LET out == Callback(op, s, d, wc)
    IN  IF out.err # "" THEN out
        ELSE IF optimize THEN out      \* the assert statement is not run
        ELSE IF ~out.iterable THEN Raised("TypeError", out.wc)
        ELSE IF \E i \in 1..Len(out.eqs) : ~IsEqInstance(out.eqs[i])
        THEN Raised("AssertionError", out.wc)
        ELSE out

\* Interpolation.__new__ / Injection.__new__: sympy's Basic.__new__ is called
\* with no arguments, so the object's sympy args are empty; the parameters
\* are kept as plain attributes.
NewOperation(ret) ==
    [cls |-> "UnevaluatedSparseOperation", args |-> <<>>, callback |-> "custom",
     ret |-> ret]
NewInterpolation(expr, offset, increment, self_subs, idims) ==
    [cls |-> "Interpolation", args |-> <<>>, callback |-> "interpolate",
     expr |-> expr, offset |-> offset, increment |-> increment,
     self_subs |-> self_subs, implicit_dims |-> idims]
NewInjection(field, expr, offset, idims) ==
    [cls |-> "Injection", args |-> <<>>, callback |-> "inject",
     field |-> field, expr |-> expr, offset |-> offset, implicit_dims |-> idims]

(***************************************************************************)
(* State machine                                                           *)
(***************************************************************************)

Schemes == {"linear", "precomputed"}

\* The sparse point sets: a SparseFunction (coordinates only) behind a linear
\* interpolator, a precomputed one with or without gridpoints.
SparseFunctions ==
    {[name |-> <<"rec">>, scheme |-> sc, r |-> r, gridpoints |-> gp] :
        sc \in Schemes, r \in 1..MaxR, gp \in BOOLEAN}
    \ {[name |-> <<"rec">>, scheme |-> "linear", r |-> r, gridpoints |-> TRUE] :
        r \in 1..MaxR}

NoAlg == [kind |-> "none"]
NoNum == [set |-> FALSE]

\* No operation exists yet and nothing was executed.
Fresh ==
    /\ wcache = NoCache
    /\ ops = <<>>
    /\ results = <<>>
    /\ num = NoNum
    /\ alg = NoAlg

\* Any grid dimension and any point set; the point sits on the grid origin.
Init ==
    /\ dim \in 1..MaxDim
    /\ sf \in SparseFunctions
    /\ spacing = 1
    /\ pt = [a \in 1..dim |-> 0]
    /\ optimize = FALSE
    /\ Fresh

\* Mutant of interpolate: the callback is called when the operation is built.
InterpolateEager(e, off, inc) ==
    LET op == NewInterpolation(e, off, inc, <<>>, ImplicitDims(sf, <<>>))
        out == Evaluate(op, sf, dim, wcache)
    IN  /\ ops' = Append(ops, op)
        /\ results' = Append(results,
                              <<[err |-> out.err, eqs |-> out.eqs, type |-> out.type]>>)
        /\ wcache' = out.wc
        /\ UNCHANGED <<dim, spacing, pt, sf, optimize, num, alg>>

\* interpolator.interpolate(expr, offset, increment): builds the operation only.
Interpolate(e, off, inc) ==
    /\ ops' = Append(ops, NewInterpolation(e, off, inc, <<>>, ImplicitDims(sf, <<>>)))
    /\ results' = Append(results, <<>>)
    /\ UNCHANGED <<dim, spacing, pt, sf, optimize, wcache, num, alg>>

\* interpolator.inject(field, expr, offset): builds the operation only.
Inject(f, e, off) ==
    /\ ops' = Append(ops, NewInjection(f, e, off, ImplicitDims(sf, <<>>)))
    /\ results' = Append(results, <<>>)
    /\ UNCHANGED <<dim, spacing, pt, sf, optimize, wcache, num, alg>>

\* UnevaluatedSparseOperation(interpolator, callback) with a callback that
\* returns ret: builds the operation only.
Construct(ret) ==
    /\ ops' = Append(ops, NewOperation(ret))
    /\ results' = Append(results, <<>>)
    /\ UNCHANGED <<dim, spacing, pt, sf, optimize, wcache, num, alg>>

\* op.evaluate: the operation is forced; what it returned or raised is kept
\* (the outcomes of the last two forcings of each operation).
Force(i) ==
    /\ i \in 1..Len(ops)
    /\ LET out == Evaluate(ops[i], sf, dim, wcache)
           new == [err |-> out.err, eqs |-> out.eqs, type |-> out.type]
       IN  /\ results' = [results EXCEPT
                            ![i] = IF Len(@) = 2 THEN <<@[2], new>> ELSE Append(@, new)]
           /\ wcache' = out.wc
    /\ UNCHANGED <<dim, spacing, pt, sf, optimize, ops, num, alg>>

\* The substitutions a caller of subs_coords / subs_coords_eq can pass: none,
\* or those _interpolation_indices gave for the variables (when it returned).
IdxSubsFor(variables) ==
    {<<>>} \cup
    (IF IndicesOk(sf, InterpPoints(sf), dim)
     THEN {InterpolationIndices(sf, dim, variables, 0, 0, <<>>).idx_subs}
     ELSE {})

\* interpolator.subs_coords(expr, *idx_subs) called on the interpolator itself:
\* no operation is built or forced; the call leaves the weights cached.
CallSubsCoords(e, idx_subs) ==
    /\ wcache' = SubsCoordsCall(e, idx_subs, sf, dim, wcache).wc
    /\ UNCHANGED <<dim, spacing, pt, sf, optimize, ops, results, num, alg>>

\* interpolator.subs_coords_eq(field, expr, *idx_subs) called on the
\* interpolator itself.
CallSubsCoordsEq(f, e, idx_subs) ==
    /\ wcache' = SubsCoordsEqCall(f, e, idx_subs, <<>>, sf, dim, wcache).wc
    /\ UNCHANGED <<dim, spacing, pt, sf, optimize, ops, results, num, alg>>

\* One interpolator, one deferred operation with any arguments, forced any
\* number of times.
Next ==
    \/ ops = <<>> /\ \E e \in Exprs, off \in Offsets, inc \in BOOLEAN :
                        Interpolate(e, off, inc)
    \/ ops = <<>> /\ \E f \in Fields, e \in Exprs, off \in Offsets : Inject(f, e, off)
    \/ \E i \in 1..Len(ops) : Force(i)
    \/ \E e \in {"u", "number"} : CallSubsCoords(e, <<>>)
    \/ \E e \in {"src", "number"} :
          \E subs \in IdxSubsFor(Carriers(e) \o <<FnU>>) : CallSubsCoordsEq(FnU, e, subs)

Spec == Init /\ [][Next]_vars

\* Several deferred operations of one interpolator, forced in any order.
NextPair ==
    \/ Len(ops) < MaxOps /\ \E e \in {"u", "const"} : Interpolate(e, 0, FALSE)
    \/ Len(ops) < MaxOps /\ Inject(FnU, "src", 0)
    \/ \E i \in 1..Len(ops) : Force(i)
    \/ CallSubsCoords("u", <<>>)
    \/ CallSubsCoordsEq(FnU, "src", <<>>)

\* As Init, for the interpolators whose forced lists hold at most MaxNeighbors
\* weighted equations (the linear scheme returns 2^dim of them, or none).
InitPair ==
    /\ Init
    /\ sf.scheme = "precomputed" => Len(InterpPoints(sf)) ^ dim <= MaxNeighbors

SpecPair == InitPair /\ [][NextPair]_vars

(***************************************************************************)
(* Executing a forced list at one point.  Positions are integers in units  *)
(* of which the spacing h is a whole number, so p/h and the weights are    *)
(* exact fractions: a weight is kept as its numerator over h (one factor)  *)
(* or over h^dim (a combined weight).                                      *)
(***************************************************************************)

RECURSIVE SumSeq(_)
SumSeq(s) == IF s = <<>> THEN 0 ELSE s[1] + SumSeq(Tail(s))
RECURSIVE ProdSeq(_)
ProdSeq(s) == IF s = <<>> THEN 1 ELSE s[1] * ProdSeq(Tail(s))

\* The value of a temporary's right-hand side.  floor() rounds down and INT
\* casts the whole number it gives.
TermValue(term, env, point, h) ==
    CASE term.t = "coord" -> point[term.axis]
      [] term.t = "frac" -> env[term.pos] - h * (env[term.pos] \div h)
      [] term.t = "index" -> (point[term.base.axis] \div h) + term.off
      [] term.t = "zero" -> 0

\* The scalar temporaries after the first j equations, executed in order.
RECURSIVE Env(_, _, _, _)
Env(eqs, j, point, h) ==
    IF j = 0 THEN [x \in {} |-> 0]
    ELSE LET env == Env(eqs, j - 1, point, h)
             eq == eqs[j]
         IN  IF eq.cls = "Eq" /\ eq.lhs.t = "sym" /\ eq.rhs.t \in {"coord", "frac", "index"}
             THEN LET v == TermValue(eq.rhs, env, point, h)
                  IN  [x \in DOMAIN env \cup {eq.lhs.sym} |->
                          IF x = eq.lhs.sym THEN v ELSE env[x]]
             ELSE env

\* The numerator over h of one linear per-axis weight.
FactorValue(f, env, h) ==
    CASE f.kind = "1-p/h" -> h - env[f.p]
      [] f.kind = "p/h" -> env[f.p]

\* The grid access of a weighted equation that tells the neighbor's node.
NodeAccess(eq) ==
    IF eq.lhs.t = "access" THEN eq.lhs.acc
    ELSE CHOOSE acc \in {eq.rhs.expr.args[i] : i \in DOMAIN eq.rhs.expr.args} :
            acc.idx # <<>>

WeightedEq(eq) == eq.rhs.t = "mul"

\* What the list computes at the point: the local coordinates p, the per-axis
\* weights, and per neighbor the combined weight and the node it is paired
\* with.
Execute(eqs, W, point, h) ==
    LET env == Env(eqs, Len(eqs), point, h)
        w == SelectSeq(eqs, WeightedEq)
    IN  [set |-> TRUE,
         p |-> [a \in 1..Len(point) |-> env[PointSymbol(a)]],
         axis |-> [a \in 1..Len(W) |->
                     [j \in 1..Len(W[a]) |-> FactorValue(W[a][j], env, h)]],
         w |-> [k \in 1..Len(w) |->
                  ProdSeq([a \in 1..Len(w[k].rhs.weight) |->
                              FactorValue(w[k].rhs.weight[a], env, h)])],
         node |-> [k \in 1..Len(w) |->
                     [a \in 1..Len(point) |-> env[NodeAccess(w[k]).idx[a].cd.name]]]]

\* The equations the last forcing of operation i returned are executed at pt.
Run(i) ==
    /\ i \in 1..Len(ops)
    /\ results[i] # <<>>
    /\ results[i][Len(results[i])].err = ""
    /\ num' = Execute(results[i][Len(results[i])].eqs, wcache.val, pt, spacing)
    /\ UNCHANGED <<dim, spacing, pt, sf, optimize, wcache, ops, results, alg>>

Spacings == {1, 2, 10}
Positions1D == {-7, 0, 3, 7, 10}

\* The linear scheme at any point position and spacing.
InitNum ==
    /\ dim \in 1..MaxDim
    /\ sf \in {s \in SparseFunctions : s.scheme = "linear"}
    /\ spacing \in Spacings
    /\ pt \in [1..dim -> Positions1D]
    /\ optimize = FALSE
    /\ Fresh

NextNum ==
    \/ ops = <<>> /\ \E e \in {"u", "uv"} : Interpolate(e, 0, FALSE)
    \/ ops = <<>> /\ Inject(FnU, "src", 0)
    \/ \E i \in 1..Len(ops) : Force(i)
    \/ \E i \in 1..Len(ops) : Run(i)
    \/ CallSubsCoords("u", <<>>)

SpecNum == InitNum /\ [][NextNum]_vars

(***************************************************************************)
(* Combining and comparing deferred operations.  A value is a deferred     *)
(* operation (named by its position in ops: its identity), an equation     *)
(* (named by the operation whose forcing returned it and its position in   *)
(* the returned list), or a list of values.                                *)
(***************************************************************************)

OpVal(i) == [tag |-> "op", id |-> i]
EqVal(i, k) == [tag |-> "eq", op |-> i, k |-> k]
ListVal(items) == [tag |-> "list", items |-> items]

\* The list the last forcing of operation i returned.
Returns(i) == results[i][Len(results[i])].eqs
EqList(i) == ListVal([k \in 1..Len(Returns(i)) |-> EqVal(i, k)])

\* devito.tools.flatten: a list inside the list is replaced by its flattened
\* elements; anything that is not iterable (an operation, an equation) stays.
RECURSIVE Flatten(_)
Flatten(l) ==
    IF l = <<>> THEN <<>>
    ELSE (IF l[1].tag = "list" THEN Flatten(l[1].items) ELSE <<l[1]>>)
         \o Flatten(Tail(l))

\* Mutant of __add__: the operands are flattened in the reflected order.
OpAddReflected(self, other) == ListVal(Flatten(<<other, self>>))

\* UnevaluatedSparseOperation.__add__
OpAdd(self, other) == ListVal(Flatten(<<self, other>>))

\* Mutant of __radd__: the operation is put before the left operand.
OpRaddSelfFirst(self, other) == ListVal(Flatten(<<self, other>>))

\* UnevaluatedSparseOperation.__radd__
OpRadd(self, other) == ListVal(Flatten(<<other, self>>))

\* x + y: an operation on the left answers with __add__; a list on the left
\* cannot add a non-list, so the operation on the right answers with
\* __radd__; two lists are concatenated.
PyAdd(x, y) ==
    IF x.tag = "op" THEN OpAdd(x, y)
    ELSE IF y.tag = "op" THEN OpRadd(y, x)
    ELSE ListVal(x.items \o y.items)

\* a == b for two operations: the comparison inherited from sympy.Expr, on
\* the class and the sympy args, which __new__ leaves empty.
OpEq(a, b) == a.cls = b.cls /\ a.args = b.args

\* What can stand on either side of +: the operations made so far, and the
\* lists that forcing them returned.
Operands ==
    {OpVal(i) : i \in 1..Len(ops)}
    \cup {EqList(i) :
            i \in {j \in 1..Len(ops) :
                    /\ results[j] # <<>>
                    /\ results[j][Len(results[j])].err = ""
                    /\ results[j][Len(results[j])].type = "list"}}

Add(a, b) ==
    /\ alg' = [kind |-> "add", a |-> a, b |-> b, val |-> PyAdd(a, b)]
    /\ UNCHANGED <<dim, spacing, pt, sf, optimize, wcache, ops, results, num>>

Assoc(a, b, c) ==
    /\ alg' = [kind |-> "assoc", a |-> a, b |-> b, c |-> c,
               left |-> PyAdd(PyAdd(a, b), c), right |-> PyAdd(a, PyAdd(b, c))]
    /\ UNCHANGED <<dim, spacing, pt, sf, optimize, wcache, ops, results, num>>

Compare(i, j) ==
    /\ alg' = [kind |-> "cmp", i |-> i, j |-> j, eq |-> OpEq(ops[i], ops[j])]
    /\ UNCHANGED <<dim, spacing, pt, sf, optimize, wcache, ops, results, num>>

\* A one-dimensional grid and a point set of radius 1.
InitAlg ==
    /\ dim = 1
    /\ sf \in {s \in SparseFunctions : s.r = 1}
    /\ spacing = 1
    /\ pt = <<0>>
    /\ optimize = FALSE
    /\ Fresh

\* Up to MaxOps operations on one interpolator, each forced at most once,
\* then one addition or comparison of any operands.
NextAlg ==
    /\ alg = NoAlg
    /\ \/ Len(ops) < MaxOps /\ \E e \in {"u", "uv"} : Interpolate(e, 0, FALSE)
       \/ Len(ops) < MaxOps /\ Inject(FnU, "src", 0)
       \/ \E i \in 1..Len(ops) : results[i] = <<>> /\ Force(i)
       \/ \E a \in Operands, b \in Operands : Add(a, b)
       \/ \E a \in Operands, b \in Operands, c \in Operands : Assoc(a, b, c)
       \/ \E i \in 1..Len(ops), j \in 1..Len(ops) : Compare(i, j)
       \/ CallSubsCoords("u", <<>>)

SpecAlg == InitAlg /\ [][NextAlg]_vars

(***************************************************************************)
(* Operations with any callback: what a callback may return.               *)
(***************************************************************************)

AnEq == MkEq(SymTerm(SumSymbol), [t |-> "zero"], <<>>)
AnInc == MkInc(SymTerm(SumSymbol), SymTerm(SumSymbol), <<>>)
NotAnEq == [cls |-> "Expr"]
\* A list, a tuple, and None.
IterableOf(items) == [iterable |-> TRUE, items |-> items, type |-> "list"]
TupleOf(items) == [iterable |-> TRUE, items |-> items, type |-> "tuple"]
NotIterable == [iterable |-> FALSE, items |-> <<>>, type |-> "NoneType"]

Rets ==
    {IterableOf(<<>>), IterableOf(<<AnEq>>), IterableOf(<<AnEq, AnInc>>),
     IterableOf(<<NotAnEq>>), IterableOf(<<AnEq, NotAnEq>>),
     IterableOf(<<NotAnEq, AnInc>>), TupleOf(<<AnEq, AnInc>>),
     TupleOf(<<AnEq, NotAnEq>>), NotIterable}

\* One operation of any kind, forced any number of times and added to itself
\* or to the list it returned; once something was added nothing is added again.
NextEval ==
    \/ ops = <<>> /\ \E ret \in Rets : Construct(ret)
    \/ ops = <<>> /\ \E e \in {"u", "dxu", "const"}, inc \in BOOLEAN : Interpolate(e, 0, inc)
    \/ ops = <<>> /\ \E e \in {"src", "dxu", "const", "number"} : Inject(FnU, e, 0)
    \/ \E i \in 1..Len(ops) : Force(i)
    \/ alg = NoAlg /\ \E a \in Operands, b \in Operands : Add(a, b)
    \/ \E e \in {"u", "number"} : CallSubsCoords(e, <<>>)
    \/ \E e \in {"src", "number"} : CallSubsCoordsEq(FnU, e, <<>>)

\* As Init, with the interpreter run with or without -O.
InitEval ==
    /\ dim \in 1..MaxDim
    /\ sf \in SparseFunctions
    /\ spacing = 1
    /\ pt = [a \in 1..dim |-> 0]
    /\ optimize \in BOOLEAN
    /\ Fresh

SpecEval == InitEval /\ [][NextEval]_vars

(***************************************************************************)
(* Reading the forced equations                                            *)
(***************************************************************************)

\* The outcomes kept for operation i that returned a list.
Lists(i) == {results[i][j].eqs : j \in {j \in 1..Len(results[i]) : results[i][j].err = ""}}

Interpolations == {i \in 1..Len(ops) : ops[i].cls = "Interpolation"}
Injections == {i \in 1..Len(ops) : ops[i].cls = "Injection"}

\* The number of neighbor combinations of the interpolator.
NeighborCount == Len(NdPoints(sf, dim))

\* The symbols an access, an expression, a weight and an equation read.
AccessSyms(acc) == {acc.idx[a].cd.name : a \in DOMAIN acc.idx}
                     \cup {acc.idx[a].cd.condition.lb.sym : a \in DOMAIN acc.idx}
                     \cup {acc.idx[a].cd.condition.ub.sym : a \in DOMAIN acc.idx}
ExprSyms(x) == UNION {AccessSyms(x.args[i]) : i \in DOMAIN x.args}
WeightSyms(w) == {w[a].p : a \in DOMAIN w} \ {NoSymbol}
TermSyms(term) ==
    CASE term.t = "frac" -> {term.pos}
      [] term.t = "sym" -> {term.sym}
      [] term.t = "mul" -> ExprSyms(term.expr) \cup WeightSyms(term.weight)
      [] term.t = "access" -> AccessSyms(term.acc)
      [] OTHER -> {}
\* An increment reads what it accumulates into; an access reads its indices.
Reads(eq) ==
    TermSyms(eq.rhs)
    \cup (IF eq.lhs.t = "access" THEN AccessSyms(eq.lhs.acc) ELSE {})
    \cup (IF eq.lhs.t = "sym" /\ eq.cls = "Inc" THEN {eq.lhs.sym} ELSE {})
Defines(eq) == IF eq.lhs.t = "sym" THEN {eq.lhs.sym} ELSE {}

\* Every temporary symbol an equation reads is written by an earlier one.
DefinedBeforeUse(eqs) ==
    \A j \in 1..Len(eqs) : \A x \in Reads(eqs[j]) :
        \E i \in 1..(j - 1) : x \in Defines(eqs[i])

\* A temporary: position, local coordinate or index definition.
IsTemp(eq) ==
    /\ eq.cls = "Eq"
    /\ eq.lhs.t = "sym"
    /\ eq.lhs.sym # SumSymbol
    /\ eq.rhs.t \in {"coord", "frac", "index"}

\* The grid accesses of an equation (the accesses of a non-grid operand
\* have no grid index).
EqAccesses(eq) ==
    (IF eq.lhs.t = "access" THEN {eq.lhs.acc} ELSE {})
    \cup (IF eq.rhs.t = "mul"
          THEN {eq.rhs.expr.args[i] : i \in DOMAIN eq.rhs.expr.args} ELSE {})

(***************************************************************************)
(* C1: a forced interpolate yields, in this order, the temporaries, one    *)
(* zero-initialisation of the accumulator, one accumulator increment per   *)
(* neighbor combination in neighbor-combination order (the k-th increment  *)
(* carries the k-th combined weight), and exactly one final write to the   *)
(* sparse storage, an Inc iff increment=True; every temporary symbol read  *)
(* by an equation is defined by an earlier equation.                       *)
(***************************************************************************)
InterpolateBlocks(op, eqs) ==
    LET n == NeighborCount
        nt == Len(eqs) - n - 2
        W == InterpolationCoeffs(ComputeWeights(sf, dim), NdPoints(sf, dim), dim)
    IN  /\ nt >= 0
        /\ \A j \in 1..nt : IsTemp(eqs[j])
        /\ eqs[nt + 1].cls = "Eq"
        /\ eqs[nt + 1].lhs = SymTerm(SumSymbol)
        /\ eqs[nt + 1].rhs.t = "zero"
        /\ \A k \in 1..n :
              /\ eqs[nt + 1 + k].cls = "Inc"
              /\ eqs[nt + 1 + k].lhs = SymTerm(SumSymbol)
              /\ eqs[nt + 1 + k].rhs.t = "mul"
              /\ eqs[nt + 1 + k].rhs.weight = W[k]
        /\ eqs[Len(eqs)].lhs.t = "sparse"
        /\ eqs[Len(eqs)].rhs = SymTerm(SumSymbol)
        /\ eqs[Len(eqs)].cls = (IF op.increment THEN "Inc" ELSE "Eq")
        /\ \A j \in 1..(Len(eqs) - 1) : eqs[j].lhs.t # "sparse"

C1_InterpolateOrder ==
    \A i \in Interpolations : \A eqs \in Lists(i) :
        InterpolateBlocks(ops[i], eqs) /\ DefinedBeforeUse(eqs)

\* Reached: a bilinear interpolate with increment=True was forced.
C1_Witness ==
    \E i \in Interpolations :
        /\ Lists(i) # {}
        /\ ops[i].increment
        /\ sf.scheme = "linear"
        /\ NeighborCount = 4

(***************************************************************************)
(* C2: a forced inject yields the temporaries followed by exactly one      *)
(* equation per neighbor combination, and every equation writing the       *)
(* target field is an Inc, never an Eq, for every scheme, dimension and    *)
(* radius.                                                                 *)
(***************************************************************************)
C2_InjectIncrements ==
    \A i \in Injections : \A eqs \in Lists(i) :
        LET n == NeighborCount
            nt == Len(eqs) - n
        IN  /\ nt >= 0
            /\ \A j \in 1..nt : IsTemp(eqs[j])
            /\ \A k \in 1..n :
                  /\ eqs[nt + k].lhs.t = "access"
                  /\ eqs[nt + k].lhs.acc.fn = ops[i].field.fn
            /\ \A j \in 1..Len(eqs) :
                  eqs[j].lhs.t = "access" => eqs[j].cls = "Inc"

\* Reached: an inject into a 2D grid with the precomputed scheme of radius 3
\* was forced and wrote the field nine times.
C2_Witness ==
    \E i \in Injections : \E eqs \in Lists(i) :
        /\ sf.scheme = "precomputed" /\ sf.r = 3 /\ dim = 2
        /\ Cardinality({j \in 1..Len(eqs) : eqs[j].lhs.t = "access"}) = 9

(***************************************************************************)
(* Evaluating a guard.  The grid axes span AxisMin..AxisMax; the base      *)
(* positions tried reach MaxBase cells beyond the widest halo.             *)
(***************************************************************************)
AxisMin(a) == 0
AxisMax(a) == GridMax
BaseRange == (AxisMin(1) - MaxR - MaxBase - 1)..(GridMax + MaxR + MaxBase + 1)

Extent(b) == IF b.ext = "min" THEN AxisMin(b.axis) ELSE AxisMax(b.axis)
EvalBound(b, v) ==
    CASE b.rel = ">=" -> v >= Extent(b) + b.delta
      [] b.rel = "<=" -> v <= Extent(b) + b.delta
      [] b.rel = ">" -> v > Extent(b) + b.delta
      [] b.rel = "<" -> v < Extent(b) + b.delta
EvalCondition(c, v) == EvalBound(c.lb, v) /\ EvalBound(c.ub, v)

GridFunctions == {"u", "v"}

\* The offsets of the index equations that define symbol x before position j.
IndexOffsets(eqs, x, j) ==
    {eqs[i].rhs.off : i \in {i \in 1..(j - 1) :
                              eqs[i].lhs = SymTerm(x) /\ eqs[i].rhs.t = "index"}}

(***************************************************************************)
(* C4: every access to a grid function in the forced equations of          *)
(* interpolate and inject uses, on every grid axis, a guarded (indirect)   *)
(* index whose symbol is defined as base + offset and whose condition is   *)
(* true exactly for axis.min - r <= index <= axis.max + r, both bounds     *)
(* inclusive: for every base position the guard of an index outside that   *)
(* range evaluates false.                                                  *)
(***************************************************************************)
GuardedAccess(eqs, j, acc) ==
    /\ Len(acc.idx) = dim
    /\ \A a \in 1..dim :
          LET g == acc.idx[a].cd
          IN  /\ g.indirect
              /\ g.condition.lb.sym = g.name
              /\ g.condition.ub.sym = g.name
              /\ Cardinality(IndexOffsets(eqs, g.name, j)) = 1
              /\ \A off \in IndexOffsets(eqs, g.name, j) : \A base \in BaseRange :
                    EvalCondition(g.condition, base + off)
                        <=> (/\ AxisMin(a) - sf.r <= base + off
                             /\ base + off <= AxisMax(a) + sf.r)

C4_AccessesGuarded ==
    \A i \in 1..Len(ops) : \A eqs \in Lists(i) : \A j \in 1..Len(eqs) :
        \A acc \in EqAccesses(eqs[j]) :
            acc.fn \in GridFunctions => GuardedAccess(eqs, j, acc)

\* Reached: a forced list accesses the grid through an index that, for some
\* base position, lies outside the halo-extended range and is masked, and for
\* another base position sits on the inclusive upper bound and is let through.
C4_Witness ==
    \E i \in 1..Len(ops) : \E eqs \in Lists(i) : \E j \in 1..Len(eqs) :
        \E acc \in EqAccesses(eqs[j]) :
            /\ acc.fn \in GridFunctions
            /\ \E a \in 1..dim : \E off \in IndexOffsets(eqs, acc.idx[a].cd.name, j) :
                  /\ \E base \in BaseRange :
                        /\ base + off > AxisMax(a) + sf.r
                        /\ ~EvalCondition(acc.idx[a].cd.condition, base + off)
                  /\ \E base \in BaseRange :
                        /\ base + off = AxisMax(a) + sf.r
                        /\ EvalCondition(acc.idx[a].cd.condition, base + off)

(***************************************************************************)
(* C3: every list a forced interpolate or inject returns holds one         *)
(* weighted equation per neighbor offset tuple, and at every position k    *)
(* the weight and the substitution reference the same offset tuple: on     *)
(* each axis there is one offset o of the interpolation points such that   *)
(* the weight factor at k is the weight of o and every guarded index used  *)
(* at k is defined as base + o.  No two positions reference the same       *)
(* tuple.  A forcing that raises returns no list (C5, C11).                *)
(***************************************************************************)
HasOperands(op) ==
    \/ op.cls = "Injection"
    \/ Carriers(IF HasEvaluate(op.expr) THEN Evaluated(op.expr) ELSE op.expr) # <<>>

IsWeighted(eq) == eq.rhs.t = "mul"

\* The weight factor that belongs to offset o of axis a.
FactorOfOffset(a, o) ==
    IF sf.scheme = "linear"
    THEN (IF o = 0 THEN Factor("1-p/h", a, PointSymbol(a), 0)
                   ELSE Factor("p/h", a, PointSymbol(a), 0))
    ELSE Factor("table", a, NoSymbol, o)

PointOffsets == {InterpPoints(sf)[x] : x \in 1..Len(InterpPoints(sf))}

\* The grid accesses of a weighted equation.
GridAccesses(eq) == {acc \in EqAccesses(eq) : acc.fn \in GridFunctions}

\* On axis a, weight and guarded indices of eq belong to the offset o.
PairedWith(eqs, eq, a, o) ==
    /\ eq.rhs.weight[a] = FactorOfOffset(a, o)
    /\ \A acc \in GridAccesses(eq) :
          IndexOffsets(eqs, acc.idx[a].cd.name, Len(eqs)) = {o}

\* The offset tuple the equation references, read from its guarded indices.
ReferencedTuple(eqs, eq) ==
    [a \in 1..dim |->
        CHOOSE o \in PointOffsets : PairedWith(eqs, eq, a, o)]

C3_WeightMatchesIndex ==
    \A i \in 1..Len(ops) : \A eqs \in Lists(i) :
        LET w == SelectSeq(eqs, IsWeighted)
        IN  /\ Len(w) = NeighborCount
            /\ \A k \in 1..Len(w) :
                  /\ Len(w[k].rhs.weight) = dim
                  /\ \A a \in 1..dim : \E o \in PointOffsets : PairedWith(eqs, w[k], a, o)
            /\ Cardinality({ReferencedTuple(eqs, w[k]) : k \in 1..Len(w)}) = Len(w)

\* Reached: an inject into a 2D grid with the precomputed scheme of radius 3
\* returned nine weighted writes; the offsets -1, 0, 1 are used as list
\* indices, so the first write references the tuple (1, 1) although the first
\* tuple of the product is (-1, -1), weight and index alike.
C3_Witness ==
    \E i \in Injections : \E eqs \in Lists(i) :
        LET w == SelectSeq(eqs, IsWeighted)
        IN  /\ sf.scheme = "precomputed" /\ sf.r = 3 /\ dim = 2
            /\ Len(w) = 9
            /\ NdPoints(sf, dim)[1] = <<-1, -1>>
            /\ ReferencedTuple(eqs, w[1]) = <<1, 1>>
            /\ w[1].rhs.weight[1].k = 1

(***************************************************************************)
(* C5 (as claimed): for every dimension d and every radius r, forcing an   *)
(* operation with operands on the linear scheme produces exactly 2^d       *)
(* combined neighbor weights, each a product of d per-axis factors.  The   *)
(* code refutes it for r >= 2.                                             *)
(***************************************************************************)
C5_LinearTwoPowD ==
    sf.scheme = "linear" =>
        \A i \in 1..Len(ops) : \A j \in 1..Len(results[i]) :
            HasOperands(ops[i]) =>
                /\ results[i][j].err = ""
                /\ LET w == SelectSeq(results[i][j].eqs, IsWeighted)
                   IN  /\ Len(w) = 2 ^ dim
                       /\ \A k \in 1..Len(w) : Len(w[k].rhs.weight) = dim

(***************************************************************************)
(* C7: forcing the same deferred operation again, whatever other            *)
(* operations of the interpolator were forced in between, gives the same   *)
(* outcome: the same equations at every position.                          *)
(***************************************************************************)
C7_ForceIdempotent ==
    \A i \in 1..Len(ops) : Len(results[i]) = 2 => results[i][1] = results[i][2]

\* Reached: an interpolate and an inject of one interpolator were each forced
\* twice and returned equations.
C7_Witness ==
    /\ \E i \in Interpolations : Len(results[i]) = 2 /\ results[i][2].err = ""
    /\ \E i \in Injections : Len(results[i]) = 2 /\ results[i][2].err = ""

(***************************************************************************)
(* C6: for the linear scheme and every point position, the local           *)
(* coordinate p = pos - h*floor(pos/h) lies in [0, h) on each axis, the    *)
(* two per-axis weights sum to 1, the combined weights over all neighbors  *)
(* sum to 1 (spacing 1, point (0.3, 0.7): 0.21, 0.49, 0.09, 0.21), and a   *)
(* point exactly on a grid node has weight 1 on that node and 0 on every   *)
(* other neighbor.  Weights are numerators over h, h^dim when combined.    *)
(***************************************************************************)
OnNode == \A a \in 1..dim : pt[a] % spacing = 0
NodeOfPoint == [a \in 1..dim |-> pt[a] \div spacing]

C6_PartitionOfUnity ==
    num.set =>
        /\ \A a \in 1..dim : 0 <= num.p[a] /\ num.p[a] < spacing
        /\ \A a \in 1..dim : Len(num.axis[a]) = 2 /\ SumSeq(num.axis[a]) = spacing
        /\ SumSeq(num.w) = spacing ^ dim
        /\ (spacing = 10 /\ pt = <<3, 7>>) => num.w = <<21, 49, 9, 21>>
        /\ OnNode =>
              /\ \E k \in 1..Len(num.w) : num.node[k] = NodeOfPoint
              /\ \A k \in 1..Len(num.w) :
                    num.w[k] = (IF num.node[k] = NodeOfPoint THEN spacing ^ dim ELSE 0)

\* Reached: the equations of a forced operation were executed at the point
\* (0.3, 0.7) of a grid of spacing 1 (3 and 7 in tenths) and gave the four
\* weights of the example.
C6_Witness ==
    /\ num.set
    /\ spacing = 10
    /\ pt = <<3, 7>>
    /\ num.w = <<21, 49, 9, 21>>
    /\ num.p = <<3, 7>>

(***************************************************************************)
(* C8, as the code has it: op1 + op2 is the flat two-element list          *)
(* [op1, op2] of the two operations themselves, still deferred, in that    *)
(* order; forcing the elements of the list in order gives the equations of *)
(* op1 followed by the equations of op2.                                   *)
(***************************************************************************)
ForcedEqs(i) == Evaluate(ops[i], sf, dim, wcache).eqs

RECURSIVE ForceAll(_)
ForceAll(items) ==
    IF items = <<>> THEN <<>>
    ELSE (IF items[1].tag = "op" THEN ForcedEqs(items[1].id)
          ELSE <<Returns(items[1].op)[items[1].k]>>)
         \o ForceAll(Tail(items))

TwoOps == alg.kind = "add" /\ alg.a.tag = "op" /\ alg.b.tag = "op"

C8_AddListsOperations ==
    TwoOps =>
        /\ alg.val = ListVal(<<alg.a, alg.b>>)
        /\ ForceAll(alg.val.items) = ForcedEqs(alg.a.id) \o ForcedEqs(alg.b.id)

\* Reached: two different operations were added.
C8_Witness ==
    /\ TwoOps
    /\ alg.a.id # alg.b.id
    /\ ops[alg.a.id] # ops[alg.b.id]
    /\ alg.val.items = <<alg.a, alg.b>>
    /\ Len(ForcedEqs(alg.a.id)) > 0

\* C8 as stated: op1 + op2 is the flat list of the forced equations of op1
\* followed by the forced equations of op2.
C8_AddYieldsForcedEquations ==
    TwoOps =>
        /\ \A k \in 1..Len(alg.val.items) : alg.val.items[k].tag = "eq"
        /\ ForceAll(alg.val.items) = ForcedEqs(alg.a.id) \o ForcedEqs(alg.b.id)

(***************************************************************************)
(* C9: for operands a, b, c that are deferred operations or equation       *)
(* lists, (a + b) + c and a + (b + c) are the same flat list: the elements *)
(* of a, then those of b, then those of c, also when the left operand is   *)
(* already a list and the reflected addition answers.                      *)
(***************************************************************************)
Elements(x) == IF x.tag = "list" THEN x.items ELSE <<x>>
IsFlat(l) == l.tag = "list" /\ \A k \in 1..Len(l.items) : l.items[k].tag # "list"

C9_AddAssociativeFlat ==
    alg.kind = "assoc" =>
        /\ alg.left = alg.right
        /\ IsFlat(alg.left)
        /\ alg.left.items = Elements(alg.a) \o Elements(alg.b) \o Elements(alg.c)

\* Reached: a list on the left of an operation, then a second operation.
C9_Witness ==
    /\ alg.kind = "assoc"
    /\ alg.a.tag = "list" /\ Len(alg.a.items) > 1
    /\ alg.b.tag = "op" /\ alg.c.tag = "op" /\ alg.b # alg.c
    /\ alg.left.items = alg.a.items \o <<alg.b, alg.c>>
    /\ alg.right = alg.left

\* C10: two deferred operations compare equal exactly when they are the same
\* object.
C10_EqualityIsIdentity ==
    alg.kind = "cmp" => (alg.eq <=> alg.i = alg.j)

(***************************************************************************)
(* C11: an interpolate or inject whose expression references no field or   *)
(* array operand never returns equations: every forcing of it raises and   *)
(* returns no list.                                                        *)
(***************************************************************************)
NoOperands(op) ==
    Carriers(IF HasEvaluate(op.expr) THEN Evaluated(op.expr) ELSE op.expr) = <<>>

C11_NoOperandsFails ==
    \A i \in 1..Len(ops) :
        NoOperands(ops[i]) =>
            \A k \in 1..Len(results[i]) :
                results[i][k].err # "" /\ results[i][k].eqs = <<>>

(***************************************************************************)
(* C12: forcing calls the callback and, when assert statements are run,    *)
(* checks its value.  A value that cannot be iterated fails with           *)
(* TypeError; an iterable holding something that is not an equation fails  *)
(* with AssertionError; both return nothing.  An iterable made only of     *)
(* equations (assignments or increments), a list or a tuple, is returned   *)
(* unchanged, so whatever forcing returns then holds equations only.       *)
(* Under python -O the callback's value is returned unchecked.             *)
(***************************************************************************)
OnlyEquations(ret) ==
    ret.iterable /\ \A j \in 1..Len(ret.items) : IsEqInstance(ret.items[j])

\* The callback's value, handed on as it is.
AsReturned(ret) == [err |-> "", eqs |-> ret.items, type |-> ret.type]

IsListOfEquations(ret) == ret.type = "list" /\ OnlyEquations(ret)

BuildsOnly ==
    ops' # ops =>
        /\ Len(ops') = Len(ops) + 1
        /\ SubSeq(ops', 1, Len(ops)) = ops
        /\ ops'[Len(ops')].callback # "custom" => ops'[Len(ops')].expr \in Exprs
        /\ results' = Append(results, <<>>)
        /\ wcache' = wcache

AddForcesNothing == alg' # alg => (results' = results /\ wcache' = wcache /\ ops' = ops)

ForcesOne ==
    (ops' = ops /\ results' # results) =>
        \E i \in 1..Len(ops) :
            /\ Len(results'[i]) > 0
            /\ \A j \in 1..Len(ops) : j # i => results'[j] = results[j]

C13_ConstructionIsLazy == [][BuildsOnly /\ AddForcesNothing /\ ForcesOne]_vars

\* Reached: an interpolate of a constant, which raises when forced, was built
\* and added to itself, and nothing was forced or cached.
C13_Witness ==
    /\ Len(ops) = 1
    /\ ops[1].cls = "Interpolation" /\ ops[1].expr = "const"
    /\ results = << <<>> >>
    /\ ~wcache.set
    /\ alg.kind = "add"
    /\ alg.val = ListVal(<<OpVal(1), OpVal(1)>>)

(***************************************************************************)
(* C14: for the precomputed scheme with radius r the per-axis weight list  *)
(* holds one table lookup for each of 2r offsets, the offsets being those  *)
(* of range(-r//2 + 1, r//2 + 1), and every lookup addresses the table of  *)
(* its axis at a valid position.                                           *)
(***************************************************************************)
\* The coefficient table holds TableWidth(s) entries per point and axis, at
\* positions 0 .. TableWidth(s) - 1.
TableWidth(s) == 2 * s.r
ValidTablePosition(s, k) == 0 <= k /\ k < TableWidth(s)

LookupOffsets(W) == [j \in 1..Len(W) |-> W[j].k]

C14_PrecomputedLookups ==
    (sf.scheme = "precomputed" /\ wcache.set) =>
        \A a \in 1..dim :
            LET W == wcache.val[a]
            IN  /\ Len(W) = 2 * sf.r
                /\ LookupOffsets(W) = Range(((-sf.r) \div 2) + 1, (sf.r \div 2) + 1)
                /\ \A j \in 1..Len(W) :
                      /\ W[j].kind = "table"
                      /\ W[j].axis = a
                      /\ ValidTablePosition(sf, W[j].k)

(***************************************************************************)
(* Injecting at one point and interpolating back.  The injected list is    *)
(* executed on a zero field with the value 1 at the point, then the        *)
(* interpolating list is executed on the field it left.  An equation on a  *)
(* guarded index is executed only where all its guards hold.  Field values *)
(* are numerators over h^dim, the value read back one over h^(2 dim).      *)
(***************************************************************************)
GuardsHold(eq, env) ==
    LET idx == NodeAccess(eq).idx
    IN  \A a \in 1..Len(idx) : EvalCondition(idx[a].cd.condition, env[idx[a].cd.name])

FieldAt(field, n) == IF n \in DOMAIN field THEN field[n] ELSE 0

\* The field after the first k weighted equations of the injection.
RECURSIVE Scatter(_, _, _, _)
Scatter(wq, ex, hold, k) ==
    IF k = 0 THEN [n \in {} |-> 0]
    ELSE LET f == Scatter(wq, ex, hold, k - 1)
             n0 == ex.node[k]
             v == IF wq[k].cls = "Inc" THEN FieldAt(f, n0) + ex.w[k] ELSE ex.w[k]
         IN  IF hold[k]
             THEN [n \in DOMAIN f \cup {n0} |-> IF n = n0 THEN v ELSE f[n]]
             ELSE f

\* sum = 0, then sum += weight * u[node] for every neighbor whose guards hold.
Gather(ex, hold, field) ==
    SumSeq([k \in 1..Len(ex.w) |->
              IF hold[k] THEN ex.w[k] * FieldAt(field, ex.node[k]) ELSE 0])

Holds(eqs, point, h) ==
    LET wq == SelectSeq(eqs, WeightedEq)
        env == Env(eqs, Len(eqs), point, h)
    IN  [k \in 1..Len(wq) |-> GuardsHold(wq[k], env)]

\* ops[i] injects the point's value into u, ops[j] interpolates u; both were
\* forced, and their lists are executed one after the other at pt.
RoundTrip(i, j) ==
    /\ i \in 1..Len(ops) /\ j \in 1..Len(ops)
    /\ ops[i].cls = "Injection" /\ ops[i].field = FnU /\ ops[i].expr = "src"
    /\ ops[j].cls = "Interpolation" /\ ops[j].expr = "u"
    /\ results[i] # <<>> /\ results[i][Len(results[i])].err = ""
    /\ results[j] # <<>> /\ results[j][Len(results[j])].err = ""
    /\ LET inj == results[i][Len(results[i])].eqs
           itp == results[j][Len(results[j])].eqs
           exi == Execute(inj, wcache.val, pt, spacing)
           exj == Execute(itp, wcache.val, pt, spacing)
           hi == Holds(inj, pt, spacing)
           hj == Holds(itp, pt, spacing)
           field == Scatter(SelectSeq(inj, WeightedEq), exi, hi, Len(exi.w))
       IN  num' = [set |-> TRUE, p |-> exj.p, axis |-> exj.axis, w |-> exj.w,
                   node |-> exj.node, hold |-> hj, field |-> field,
                   back |-> Gather(exj, hj, field)]
    /\ UNCHANGED <<dim, spacing, pt, sf, optimize, wcache, ops, results, alg>>

\* An injection and an interpolation on the linear scheme, each forced once.
NextTrip ==
    \/ ops = <<>> /\ Inject(FnU, "src", 0)
    \/ Len(ops) = 1 /\ Interpolate("u", 0, FALSE)
    \/ \E i \in 1..Len(ops) : results[i] = <<>> /\ Force(i)
    \/ \E i \in 1..Len(ops), j \in 1..Len(ops) : RoundTrip(i, j)
    \/ CallSubsCoordsEq(FnU, "src", <<>>)

SpecTrip == InitNum /\ [][NextTrip]_vars

(***************************************************************************)
(* C15, as the code has it: the value read back is the sum of the squares  *)
(* of the weights of the neighbors whose guards hold.  It never exceeds 1, *)
(* and when all guards hold it is 1 exactly when the point lies on a grid  *)
(* node.                                                                   *)
(***************************************************************************)
One == spacing ^ (2 * dim)
AllHold == \A k \in 1..Len(num.hold) : num.hold[k]

IndexSymbolName(sname, dname, ri) ==
    "ii_" \o sname \o "_" \o dname \o "_" \o ToString(ri)

PointSetNames == {"rec", "src", "a", "a_b"}
AxisNames == {"x", "y", "c", "b_c"}
Triples ==
    {<<sname, dname, ri>> :
        sname \in PointSetNames, dname \in AxisNames, ri \in 0..(2 * MaxR - 1)}

\* The index symbols of two (point set, axis, offset position) triples are
\* named.
Allocate(t1, t2) ==
    /\ alg = NoAlg
    /\ alg' = [kind |-> "names", a |-> t1, b |-> t2,
               na |-> IndexSymbolName(t1[1], t1[2], t1[3]),
               nb |-> IndexSymbolName(t2[1], t2[2], t2[3])]
    /\ UNCHANGED <<dim, spacing, pt, sf, optimize, wcache, ops, results, num>>

InitNames ==
    /\ dim = 1
    /\ sf \in {s \in SparseFunctions : s.scheme = "linear" /\ s.r = 1}
    /\ spacing = 1
    /\ pt = <<0>>
    /\ optimize = FALSE
    /\ Fresh

NextNames == \E t1 \in Triples, t2 \in Triples : Allocate(t1, t2)

SpecNames == InitNames /\ [][NextNames]_vars

\* C16: two different (point set, axis, offset position) triples never get the
\* same index symbol name, whatever the names, underscores included.
C16_IndexNamesUnique ==
    alg.kind = "names" => (alg.na = alg.nb <=> alg.a = alg.b)

(***************************************************************************)
(* C17: in the equations of one forced interpolate followed by those of    *)
(* another, both accumulating into 'sum', the increments that reach a      *)
(* final write since the last zero-initialisation of the accumulator are   *)
(* exactly the increments of the write's own operation, one per neighbor;  *)
(* the second operation's zero-initialisation comes after the first        *)
(* operation's final write.                                                *)
(***************************************************************************)
IsZeroInit(eq) ==
    eq.cls = "Eq" /\ eq.lhs = SymTerm(SumSymbol) /\ eq.rhs = [t |-> "zero"]
IsContribution(eq) == eq.cls = "Inc" /\ eq.lhs = SymTerm(SumSymbol)
IsFinalWrite(eq) == eq.lhs.t = "sparse"

\* The increments of the accumulator that the final write at position j reads:
\* those after the last zero-initialisation before j, or all before j when
\* there is none.
Reaching(L, j) ==
    LET zs == {i \in 1..(j - 1) : IsZeroInit(L[i])}
    IN  {i \in 1..(j - 1) : IsContribution(L[i]) /\ \A z \in zs : z < i}

TwoInterpolations ==
    /\ alg.kind = "add"
    /\ alg.a.tag = "list" /\ alg.b.tag = "list"
    /\ \A x \in {alg.a, alg.b} :
          x.items # <<>> /\ ops[x.items[1].op].cls = "Interpolation"

C17_NoLeakBetweenOperations ==
    TwoInterpolations =>
        LET L == ForceAll(alg.val.items)
            na == Len(alg.a.items)
            own(j) == IF j <= na THEN 1..na ELSE (na + 1)..Len(L)
        IN  /\ Len(L) = na + Len(alg.b.items)
            /\ {j \in 1..Len(L) : IsFinalWrite(L[j])} = {na, Len(L)}
            /\ \A j \in {na, Len(L)} :
                  /\ Reaching(L, j) = {i \in own(j) : IsContribution(L[i])}
                  /\ Cardinality(Reaching(L, j)) = NeighborCount
                  /\ \E z \in own(j) : IsZeroInit(L[z])

\* Reached: the lists of interpolate(u) and interpolate(u*v) one after the
\* other.
C17_Witness ==
    /\ TwoInterpolations
    /\ ops[alg.a.items[1].op].expr = "u"
    /\ ops[alg.b.items[1].op].expr = "uv"
    /\ Cardinality(Reaching(ForceAll(alg.val.items), Len(alg.val.items))) = NeighborCount
    /\ NeighborCount > 1

(***************************************************************************)
(* C18: what forcing an interpolate or inject gives does not depend on the *)
(* offset argument: the same operation with any other offset gives the     *)
(* same outcome.  Every index is defined as base + neighbor offset, and    *)
(* the only shift of a guarded index in an access is the origin of the     *)
(* operand accessed.                                                       *)
(***************************************************************************)
OriginOf(fn) ==
    CHOOSE st \in {v.stag : v \in {w \in {FnU, FnUShifted, FnV, FnSrc} : w.fn = fn}} : TRUE

PlainIndices(eqs) ==
    \A j \in 1..Len(eqs) :
        /\ eqs[j].rhs.t = "index" =>
              /\ \E x \in 1..Len(InterpPoints(sf)) : eqs[j].rhs.off = InterpPoints(sf)[x]
              /\ eqs[j].rhs.base = BaseTerm(sf, eqs[j].rhs.base.axis)
        /\ \A acc \in EqAccesses(eqs[j]) : \A a \in 1..Len(acc.idx) :
              acc.idx[a].origin = OriginOf(acc.fn)

C18_OffsetIgnored ==
    \A i \in 1..Len(ops) : \A k \in 1..Len(results[i]) :
        /\ \A off \in Offsets :
              LET out == Evaluate([ops[i] EXCEPT !.offset = off], sf, dim, wcache)
              IN  results[i][k] = [err |-> out.err, eqs |-> out.eqs, type |-> out.type]
        /\ PlainIndices(results[i][k].eqs)

\* Reached: an operation built with offset 1 on a staggered operand was forced
\* and returned equations.
C18_Witness ==
    \E i \in 1..Len(ops) :
        /\ ops[i].offset = 1
        /\ ops[i].expr = "uv"
        /\ Len(results[i]) > 0
        /\ results[i][1].err = ""
        /\ Len(results[i][1].eqs) > 0

====
